---- MODULE Spec2Model ----
(***************************************************************************)
(* The SnakeGame React component (snake_game_frontend/src/SnakeGame.js)    *)
(* as a state machine.                                                     *)
(*                                                                         *)
(* A state is one committed render of the component: the values of its     *)
(* useState hooks, the interval timer, and the set of effect dependencies  *)
(* that changed in that commit and whose effects have still to run.        *)
(* directionRef.current and snakeRef.current are assigned from direction   *)
(* and snake on every render (lines 44-47), so they are the variables      *)
(* direction and snake themselves.  React runs the effects of a commit     *)
(* before it handles the next event, so the event actions (KeyDown,        *)
(* TimerFire, Restart) wait until changedDeps is empty.                    *)
(***************************************************************************)
EXTENDS Integers, Sequences, FiniteSets

VARIABLES
    snake,        \* useState(INITIAL_SNAKE): sequence of cells, head first
    direction,    \* useState(INITIAL_DIRECTION), read through directionRef
    food,         \* useState(generateFood(INITIAL_SNAKE))
    score,        \* useState(0)
    gameOver,     \* useState(false)
    moveTick,     \* useState(0)
    timers,       \* the number of intervals running (gameLoopTimer holds
                  \* the id of the one set last)
    changedDeps,  \* effect dependencies changed by the last commit
    lastKeyDir,   \* history: newDir of the last direction key pressed since
                  \* the interval last fired (Undefined when none)
    keysAllowed,  \* history: no direction key pressed since then was the
                  \* opposite of the snake's last move
    gfPc          \* position in a generateFood call that is followed draw by
                  \* draw: "idle" (none), "loop" (line 166), "returned" (line 172)

vars == <<snake, direction, food, score, gameOver, moveTick, timers,
          changedDeps, lastKeyDir, keysAllowed, gfPc>>

----------------------------------------------------------------------------
(* Program constants *)

GRID_SIZE == 16

INITIAL_SNAKE == << [x |-> 8, y |-> 8], [x |-> 7, y |-> 8], [x |-> 6, y |-> 8] >>

INITIAL_DIRECTION == [x |-> 1, y |-> 0]

(* Bounds of the model *)

\* The interval callback is delivered while moveTick < MaxTick.
MaxTick == 7

\* Math.random() is drawn so that the candidate food cells lie in the
\* RandSpan columns in front of the initial head, on its row and the next.
RandSpan == 2

\* In the runs that are followed to the end of the game, direction keys are
\* pressed only while moveTick < MaxTurnTick.
MaxTurnTick == 4

\* The generateFood calls followed draw by draw are given snakes that leave
\* 0..MaxFree cells of the grid free (and INITIAL_SNAKE).
MaxFree == 2

----------------------------------------------------------------------------
(* Keyboard input, lines 58-63 *)

Keys == {"ArrowUp", "w", "W", "ArrowDown", "s", "S",
         "ArrowLeft", "a", "A", "ArrowRight", "d", "D", "Enter"}

\* The value of newDir when no branch of lines 60-63 assigns it.
Undefined == [x |-> 0, y |-> 0]

KeyToDir(key) ==
    IF key \in {"ArrowUp", "w", "W"} THEN [x |-> 0, y |-> -1]
    ELSE IF key \in {"ArrowDown", "s", "S"} THEN [x |-> 0, y |-> 1]
    ELSE IF key \in {"ArrowLeft", "a", "A"} THEN [x |-> -1, y |-> 0]
    ELSE IF key \in {"ArrowRight", "d", "D"} THEN [x |-> 1, y |-> 0]
    ELSE Undefined

\* The reversal test left out: every direction key is accepted.
M_IsReversalNever(newDir, cur) == FALSE

\* Line 68: newDir.x === -directionRef.current.x && newDir.y === -directionRef.current.y
IsReversal(newDir, cur) == newDir.x = -cur.x /\ newDir.y = -cur.y

----------------------------------------------------------------------------
(* generateFood, lines 164-175 *)

\* The cells one draw of lines 167-170 can produce.
RandomCells ==
    { [x |-> i, y |-> j] :
        i \in {v \in 0..(GRID_SIZE - 1) : 9 <= v /\ v < 9 + RandSpan},
        j \in {v \in 0..(GRID_SIZE - 1) : 8 <= v /\ v <= 9} }

\* The test of line 171 looking at the head only.
M_OnSnakeHeadOnly(snakeArr, c) == snakeArr[1].x = c.x /\ snakeArr[1].y = c.y

\* Line 171: snakeArr.some(seg => seg.x === newFood.x && seg.y === newFood.y)
OnSnake(snakeArr, c) ==
    \E i \in 1..Len(snakeArr) : snakeArr[i].x = c.x /\ snakeArr[i].y = c.y

\* The occupancy test of line 171 left out.
M_GenerateFoodAnywhere(snakeArr) == RandomCells

\* The values generateFood(snakeArr) can return; empty when the loop of
\* line 166 never finds a free cell.
GenerateFood(snakeArr) == { c \in RandomCells : ~OnSnake(snakeArr, c) }

----------------------------------------------------------------------------
(* The moveTick effect, lines 93-126 *)

\* Lines 97-100
NextHead ==
    [x |-> snake[1].x + direction.x, y |-> snake[1].y + direction.y]

\* The self test of line 108 skipping the tail cell.
M_CollisionTailFree(newSnake, nextHead) ==
    \/ nextHead.x < 0
    \/ nextHead.y < 0
    \/ nextHead.x >= GRID_SIZE
    \/ nextHead.y >= GRID_SIZE
    \/ \E i \in 1..(Len(newSnake) - 1) :
          newSnake[i].x = nextHead.x /\ newSnake[i].y = nextHead.y

\* The self test of line 108 left out: only the walls are fatal.
M_CollisionWallsOnly(newSnake, nextHead) ==
    \/ nextHead.x < 0
    \/ nextHead.y < 0
    \/ nextHead.x >= GRID_SIZE
    \/ nextHead.y >= GRID_SIZE

\* The wall tests of lines 106-107 written with > for >=.
M_CollisionOffByOne(newSnake, nextHead) ==
    \/ nextHead.x < 0
    \/ nextHead.y < 0
    \/ nextHead.x > GRID_SIZE
    \/ nextHead.y > GRID_SIZE
    \/ \E i \in 1..Len(newSnake) :
          newSnake[i].x = nextHead.x /\ newSnake[i].y = nextHead.y

\* The wall tests of lines 104-107 left out: only the snake is fatal.
M_CollisionNoWalls(newSnake, nextHead) ==
    \E i \in 1..Len(newSnake) :
        newSnake[i].x = nextHead.x /\ newSnake[i].y = nextHead.y

\* Lines 103-109
Collision(newSnake, nextHead) ==
    \/ nextHead.x < 0
    \/ nextHead.y < 0
    \/ nextHead.x >= GRID_SIZE
    \/ nextHead.y >= GRID_SIZE
    \/ \E i \in 1..Len(newSnake) :
          newSnake[i].x = nextHead.x /\ newSnake[i].y = nextHead.y

\* The unshift of line 114 done before the collision test, and the snake stored.
M_CrashStoresHead ==
    /\ gameOver' = TRUE
    /\ snake' = <<NextHead>> \o snake
    /\ UNCHANGED <<food, score>>

\* Lines 110-111: setGameOver(true); return
Crash ==
    /\ gameOver' = TRUE
    /\ UNCHANGED <<snake, food, score>>

\* The setScore of line 118 left out.
M_EatNoScore(nextHead) ==
    /\ snake' = <<nextHead>> \o snake
    /\ score' = score
    /\ food' \in GenerateFood(<<nextHead>> \o snake)
    /\ UNCHANGED gameOver

\* Lines 114, 117-120, 124: unshift, setScore, setFood, setSnake
Eat(nextHead) ==
    /\ snake' = <<nextHead>> \o snake
    /\ score' = score + 1
    /\ food' \in GenerateFood(<<nextHead>> \o snake)
    /\ UNCHANGED gameOver

\* The pop of line 122 left out.
M_MoveNoPop(nextHead) ==
    /\ snake' = <<nextHead>> \o snake
    /\ UNCHANGED <<food, score, gameOver>>

\* The pop of line 122 written as shift: the old head is dropped.
M_MoveShifts(nextHead) ==
    /\ snake' = <<nextHead>> \o Tail(snake)
    /\ UNCHANGED <<food, score, gameOver>>

\* Lines 114, 121-124: unshift, pop, setSnake
Move(nextHead) ==
    /\ snake' = <<nextHead>> \o SubSeq(snake, 1, Len(snake) - 1)
    /\ UNCHANGED <<food, score, gameOver>>

MoveTickEffect ==
    IF gameOver
    THEN UNCHANGED <<snake, food, score, gameOver>>
    ELSE IF Collision(snake, NextHead) THEN Crash
         ELSE IF NextHead.x = food.x /\ NextHead.y = food.y
              THEN Eat(NextHead)
              ELSE Move(NextHead)

----------------------------------------------------------------------------
(* The interval effect, lines 79-90 *)

\* The cleanup of line 88 left out: the interval set by the previous run
\* keeps running.
M_IntervalEffectNoCleanup == timers' = timers + (IF gameOver THEN 0 ELSE 1)

\* The cleanup the previous run returned clears the interval it set (line
\* 88); the body returns when gameOver (lines 80-83) and sets a new interval
\* otherwise (line 85).
IntervalEffect ==
    timers' = (IF timers > 0 THEN timers - 1 ELSE 0)
                + (IF gameOver THEN 0 ELSE 1)

----------------------------------------------------------------------------
(* Actions *)

Init ==
    /\ snake = INITIAL_SNAKE
    /\ direction = INITIAL_DIRECTION
    /\ food \in GenerateFood(INITIAL_SNAKE)
    /\ score = 0
    /\ gameOver = FALSE
    /\ moveTick = 0
    /\ timers = 0
    /\ gfPc = "idle"
    /\ changedDeps = {"mount"}
    /\ lastKeyDir = Undefined
    /\ keysAllowed = TRUE

\* The effects of the last commit, in declaration order.  The effects with
\* [gameOver] run on mount and when gameOver changed, the effect with
\* [moveTick] on mount and when moveTick changed.
FlushEffects ==
    /\ changedDeps # {}
    /\ IF changedDeps \cap {"mount", "gameOver"} # {}
       THEN IntervalEffect
       ELSE UNCHANGED timers
    /\ IF changedDeps \cap {"mount", "moveTick"} # {}
       THEN MoveTickEffect
       ELSE UNCHANGED <<snake, food, score, gameOver>>
    /\ changedDeps' = IF gameOver' # gameOver THEN {"gameOver"} ELSE {}
    /\ UNCHANGED <<direction, moveTick, lastKeyDir, keysAllowed, gfPc>>

\* The early return of line 57 left out.
M_KeyIgnoredNever == FALSE

\* Line 57: if (gameOver) return
KeyIgnored == gameOver

\* handleKeyDown moving the snake at once in the direction it accepts.
M_KeyDownMoves(key) ==
    /\ changedDeps = {}
    /\ IF KeyIgnored
       THEN UNCHANGED <<direction, lastKeyDir, keysAllowed, snake>>
       ELSE LET newDir == KeyToDir(key)
                accepted == newDir # Undefined /\ ~IsReversal(newDir, direction)
            IN
            /\ direction' = IF accepted THEN newDir ELSE direction
            /\ snake' =
                 IF accepted
                 THEN << [x |-> snake[1].x + newDir.x, y |-> snake[1].y + newDir.y] >>
                        \o SubSeq(snake, 1, Len(snake) - 1)
                 ELSE snake
            /\ lastKeyDir' = IF newDir # Undefined THEN newDir ELSE lastKeyDir
            /\ keysAllowed' = keysAllowed
    /\ UNCHANGED <<food, score, gameOver, moveTick, timers, changedDeps, gfPc>>

\* handleKeyDown, lines 56-72
KeyDown(key) ==
    /\ changedDeps = {}
    /\ IF KeyIgnored
       THEN UNCHANGED <<direction, lastKeyDir, keysAllowed>>
       ELSE LET newDir == KeyToDir(key) IN
            /\ direction' =
                 IF newDir # Undefined /\ ~IsReversal(newDir, direction)
                 THEN newDir
                 ELSE direction
            /\ lastKeyDir' = IF newDir # Undefined THEN newDir ELSE lastKeyDir
            /\ keysAllowed' =
                 IF newDir # Undefined
                 THEN keysAllowed /\
                      ~(newDir.x = snake[2].x - snake[1].x /\
                        newDir.y = snake[2].y - snake[1].y)
                 ELSE keysAllowed
    /\ UNCHANGED <<snake, food, score, gameOver, moveTick, timers, changedDeps,
                   gfPc>>

\* The interval callback, lines 85-87: setMoveTick(tick => tick + 1)
IntervalCallback ==
    /\ changedDeps = {}
    /\ timers > 0
    /\ moveTick' = moveTick + 1
    /\ changedDeps' = {"moveTick"}
    /\ lastKeyDir' = Undefined
    /\ keysAllowed' = TRUE
    /\ UNCHANGED <<snake, direction, food, score, gameOver, timers, gfPc>>

\* The interval callback, delivered up to the bound on moveTick.
TimerFire ==
    /\ moveTick < MaxTick
    /\ IntervalCallback

\* The setDirection of line 180 left out.
M_RestartKeepsDirection ==
    /\ changedDeps = {}
    /\ gameOver
    /\ snake' = INITIAL_SNAKE
    /\ direction' = direction
    /\ food' \in GenerateFood(INITIAL_SNAKE)
    /\ score' = 0
    /\ gameOver' = FALSE
    /\ moveTick' = 0
    /\ changedDeps' = (IF gameOver # FALSE THEN {"gameOver"} ELSE {})
                        \cup (IF moveTick # 0 THEN {"moveTick"} ELSE {})
    /\ lastKeyDir' = Undefined
    /\ keysAllowed' = TRUE
    /\ UNCHANGED <<timers, gfPc>>

\* The setMoveTick(0) of line 184 left out.
M_RestartKeepsMoveTick ==
    /\ changedDeps = {}
    /\ gameOver
    /\ snake' = INITIAL_SNAKE
    /\ direction' = INITIAL_DIRECTION
    /\ food' \in GenerateFood(INITIAL_SNAKE)
    /\ score' = 0
    /\ gameOver' = FALSE
    /\ moveTick' = moveTick
    /\ changedDeps' = (IF gameOver # FALSE THEN {"gameOver"} ELSE {})
    /\ lastKeyDir' = Undefined
    /\ keysAllowed' = TRUE
    /\ UNCHANGED <<timers, gfPc>>

\* The setScore of line 182 left out.
M_RestartKeepsScore ==
    /\ changedDeps = {}
    /\ gameOver
    /\ snake' = INITIAL_SNAKE
    /\ direction' = INITIAL_DIRECTION
    /\ food' \in GenerateFood(INITIAL_SNAKE)
    /\ score' = score
    /\ gameOver' = FALSE
    /\ moveTick' = 0
    /\ changedDeps' = (IF gameOver # FALSE THEN {"gameOver"} ELSE {})
                        \cup (IF moveTick # 0 THEN {"moveTick"} ELSE {})
    /\ lastKeyDir' = Undefined
    /\ keysAllowed' = TRUE
    /\ UNCHANGED <<timers, gfPc>>

\* handleRestart, lines 178-185; its button is rendered only when gameOver
Restart ==
    /\ changedDeps = {}
    /\ gameOver
    /\ snake' = INITIAL_SNAKE
    /\ direction' = INITIAL_DIRECTION
    /\ food' \in GenerateFood(INITIAL_SNAKE)
    /\ score' = 0
    /\ gameOver' = FALSE
    /\ moveTick' = 0
    /\ changedDeps' = (IF gameOver # FALSE THEN {"gameOver"} ELSE {})
                        \cup (IF moveTick # 0 THEN {"moveTick"} ELSE {})
    /\ lastKeyDir' = Undefined
    /\ keysAllowed' = TRUE
    /\ UNCHANGED <<timers, gfPc>>

Next ==
    \/ FlushEffects
    \/ \E key \in Keys : KeyDown(key)
    \/ TimerFire
    \/ Restart

Spec == Init /\ [][Next]_vars

----------------------------------------------------------------------------
(* Games followed to their end: the interval keeps firing (no bound on      *)
(* moveTick) and the player stops pressing keys after MaxTurnTick ticks.    *)

LiveKeyDown(key) ==
    /\ moveTick < MaxTurnTick
    /\ KeyDown(key)

LiveNext ==
    \/ FlushEffects
    \/ \E key \in Keys : LiveKeyDown(key)
    \/ IntervalCallback
    \/ Restart

\* setInterval calls its callback every MOVE_INTERVAL ms for as long as the
\* interval is set, and React runs the effects of every commit.
LiveSpec ==
    /\ Init
    /\ [][LiveNext]_vars
    /\ WF_vars(FlushEffects)
    /\ WF_vars(IntervalCallback)

----------------------------------------------------------------------------
(* generateFood, lines 164-175, one draw of Math.random() at a time *)

\* The cells lines 167-170 produce when Math.random() ranges over [0, 1).
AllCells ==
    { [x |-> i, y |-> j] : i \in 0..(GRID_SIZE - 1), j \in 0..(GRID_SIZE - 1) }

\* A snake of n cells laid row after row over the grid, alternate rows
\* reversed, so that consecutive cells are adjacent.
Serpentine(n) ==
    [ k \in 1..n |->
        LET row == (k - 1) \div GRID_SIZE
            col == (k - 1) % GRID_SIZE
        IN  [x |-> IF row % 2 = 0 THEN col ELSE GRID_SIZE - 1 - col, y |-> row] ]

\* The arguments of the calls followed.
FoodInputs ==
    {INITIAL_SNAKE}
      \cup { Serpentine(GRID_SIZE * GRID_SIZE - free) : free \in 0..MaxFree }

\* A call generateFood(snake) has entered the loop of line 166; food holds
\* newFood, not yet assigned.
FoodInit ==
    /\ snake \in FoodInputs
    /\ food = Undefined
    /\ gfPc = "loop"
    /\ direction = INITIAL_DIRECTION
    /\ score = 0
    /\ gameOver = FALSE
    /\ moveTick = 0
    /\ timers = 0
    /\ changedDeps = {}
    /\ lastKeyDir = Undefined
    /\ keysAllowed = TRUE

\* One pass of the loop, lines 167-173: draw newFood, return it when no
\* segment of the snake is on it, go round again otherwise.
GfDraw(c) ==
    /\ gfPc = "loop"
    /\ food' = c
    /\ gfPc' = IF OnSnake(snake, c) THEN "loop" ELSE "returned"
    /\ UNCHANGED <<snake, direction, score, gameOver, moveTick, timers,
                   changedDeps, lastKeyDir, keysAllowed>>

\* A pass that leaves the loop by the return of line 172.
GfReturn == \E c \in AllCells : GfDraw(c) /\ gfPc' = "returned"

FoodNext == \E c \in AllCells : GfDraw(c)

\* A fair random source: when every pass can leave the loop, one does.
FoodSpec ==
    /\ FoodInit
    /\ [][FoodNext]_vars
    /\ WF_vars(GfReturn)

----------------------------------------------------------------------------
(* Properties *)

\* The moveTick effect is about to run its movement step: moveTick changed
\* (or the component has just mounted) and the game is not over.
RunningTickDue == changedDeps \cap {"mount", "moveTick"} # {} /\ ~gameOver

\* C1: the direction a tick applies is never the opposite of the direction
\* the preceding tick applied (head minus neck), i.e. no tick moves the head
\* onto the neck cell, whatever keys were pressed in between.
C1_NoReversalBetweenTicks ==
    RunningTickDue =>
        ~(direction.x = -(snake[1].x - snake[2].x) /\
          direction.y = -(snake[1].y - snake[2].y))

\* C2: a Running tick ends the game if and only if head + direction is
\* outside the grid or is a cell of the current snake, the tail included.
C2_CrashIff ==
    [][ RunningTickDue =>
          LET nh == [x |-> snake[1].x + direction.x,
                     y |-> snake[1].y + direction.y]
          IN  gameOver' <=>
                \/ nh.x \notin 0..(GRID_SIZE - 1)
                \/ nh.y \notin 0..(GRID_SIZE - 1)
                \/ nh \in {snake[i] : i \in 1..Len(snake)} ]_vars

\* C2 witness: a game ended by moving into the cell the tail was on.
W_C2_TailCrash ==
    /\ gameOver
    /\ Len(snake) >= 4
    /\ snake[Len(snake)] = [x |-> snake[1].x + direction.x,
                            y |-> snake[1].y + direction.y]

\* C3: a tick that crashes changes only the phase: snake, food and score
\* (and direction and moveTick) keep their pre-tick values.
C3_CrashChangesOnlyPhase ==
    [][ (RunningTickDue /\ gameOver') =>
          (snake' = snake /\ food' = food /\ score' = score /\
           direction' = direction /\ moveTick' = moveTick) ]_vars

\* C3 witness: the boundary scenario, head at (15,8) moving right, crashed.
W_C3_BoundaryCrash ==
    /\ gameOver
    /\ snake[1] = [x |-> GRID_SIZE - 1, y |-> 8]
    /\ direction = [x |-> 1, y |-> 0]

\* C4: a tick that does not crash lengthens the snake by one and adds one to
\* the score when head + direction is the food cell, and leaves length and
\* score as they were otherwise.
C4_GrowthLaw ==
    [][ (RunningTickDue /\ ~gameOver') =>
          IF snake[1].x + direction.x = food.x /\ snake[1].y + direction.y = food.y
          THEN Len(snake') = Len(snake) + 1 /\ score' = score + 1
          ELSE Len(snake') = Len(snake) /\ score' = score ]_vars

\* C4 witness: two foods eaten and an ordinary move made since.
W_C4_AteTwiceAndMoved ==
    /\ score = 2
    /\ Len(snake) = 5
    /\ moveTick >= 3
    /\ ~gameOver

\* C5: food is never on the snake, initially and after every tick and
\* restart; a tick that eats places the new food on a cell other than the
\* eaten one and off the grown snake.
C5_FoodOffSnake ==
    /\ [](\A i \in 1..Len(snake) : snake[i] # food)
    /\ [][ score' = score + 1 =>
             (food' # food /\ \A i \in 1..Len(snake') : snake'[i] # food') ]_vars

\* C5 witness: food has been eaten and placed again, the old food cell
\* being still under the snake.
W_C5_FoodReplaced ==
    /\ score >= 1
    /\ changedDeps = {}
    /\ \E i \in 1..Len(snake) : snake[i] \in RandomCells

\* C6: no two cells of the snake are equal.
C6_NoDuplicateCells ==
    \A i, j \in 1..Len(snake) : i # j => snake[i] # snake[j]

\* C6 witness: a grown snake curled so that its head is beside a cell of
\* its own body other than the neck.
W_C6_CurledSnake ==
    /\ ~gameOver
    /\ Len(snake) >= 4
    /\ \E i \in 3..Len(snake) :
          (snake[1].x - snake[i].x) * (snake[1].x - snake[i].x)
            + (snake[1].y - snake[i].y) * (snake[1].y - snake[i].y) = 1

C8_RestartResets ==
    [][ (gameOver /\ ~gameOver') =>
          /\ score' = 0
          /\ direction' = [x |-> 1, y |-> 0]
          /\ snake' = << [x |-> 8, y |-> 8], [x |-> 7, y |-> 8], [x |-> 6, y |-> 8] >>
          /\ \A i \in 1..3 : snake'[i] # food'
          /\ food'.x \in 0..(GRID_SIZE - 1) /\ food'.y \in 0..(GRID_SIZE - 1) ]_vars

\* C8 witness: the state a restart commits, its effects still to run.
W_C8_JustRestarted ==
    /\ ~gameOver
    /\ changedDeps = {"gameOver", "moveTick"}
    /\ score = 0

\* C9: when every direction key pressed since the last tick is not the
\* opposite of the snake's last move, the direction the next tick applies is
\* that of the last key pressed.
C9_LastWriteWins ==
    (~gameOver /\ lastKeyDir # Undefined /\ keysAllowed) => direction = lastKeyDir

C11_FoodPlacementTerminates ==
    LET free == { c \in AllCells : \A i \in 1..Len(snake) : snake[i] # c } IN
    /\ gfPc = "returned" => food \in free
    /\ (gfPc = "loop" /\ free # {}) => ENABLED GfReturn
    /\ free = {} => (gfPc = "loop" /\ ~ENABLED GfReturn)

\* C11 witness: the call returned the one cell a snake of
\* GRID_SIZE * GRID_SIZE - 1 cells leaves free.
W_C11_LastFreeCellFound ==
    /\ gfPc = "returned"
    /\ Len(snake) = GRID_SIZE * GRID_SIZE - 1

\* C12: a key press, accepted or rejected, changes neither snake, food,
\* score nor phase (nor moveTick nor the timer), and the snake changes only
\* in a tick or a restart.  (The steps between two commits without pending
\* effects are the key presses.)
C12_KeyChangesOnlyDirection ==
    /\ [][ (changedDeps = {} /\ changedDeps' = {}) =>
             (snake' = snake /\ food' = food /\ score' = score /\
              gameOver' = gameOver /\ moveTick' = moveTick /\ timers' = timers) ]_vars
    /\ [][ snake' # snake =>
             \/ changedDeps \cap {"mount", "moveTick"} # {}
             \/ (gameOver /\ ~gameOver') ]_vars

\* C12 witness: a key was accepted and turned the direction, the snake not
\* having moved yet.
W_C12_TurnPending ==
    /\ ~gameOver
    /\ changedDeps = {}
    /\ lastKeyDir = direction
    /\ direction # [x |-> snake[1].x - snake[2].x, y |-> snake[1].y - snake[2].y]

\* C13: a tick that does not crash stores head + direction followed by the
\* whole old snake when that cell is the food, and followed by the old snake
\* without its last cell otherwise.
C13_NewSnake ==
    [][ (RunningTickDue /\ ~gameOver') =>
          LET nh == [x |-> snake[1].x + direction.x,
                     y |-> snake[1].y + direction.y]
          IN  snake' = IF nh = food
                       THEN <<nh>> \o snake
                       ELSE <<nh>> \o [i \in 1..(Len(snake) - 1) |-> snake[i]] ]_vars

\* C13 witness: the feeding scenario, food at (9,8) eaten from (8,8).
W_C13_FeedingScenario ==
    /\ snake = << [x |-> 9, y |-> 8], [x |-> 8, y |-> 8],
                  [x |-> 7, y |-> 8], [x |-> 6, y |-> 8] >>
    /\ score = 1

\* C14: every snake cell and the food cell have both coordinates in
\* 0..GRID_SIZE-1, also after a crash into a wall.
C14_CellsInGrid ==
    /\ \A i \in 1..Len(snake) :
          snake[i].x \in 0..(GRID_SIZE - 1) /\ snake[i].y \in 0..(GRID_SIZE - 1)
    /\ food.x \in 0..(GRID_SIZE - 1) /\ food.y \in 0..(GRID_SIZE - 1)

\* C14 witness: a game over by a crash into a wall, after food was placed
\* anew.
W_C14_WallCrashAfterEating ==
    /\ gameOver
    /\ score >= 1
    /\ \/ snake[1].x + direction.x \notin 0..(GRID_SIZE - 1)
       \/ snake[1].y + direction.y \notin 0..(GRID_SIZE - 1)

\* C15: consecutive snake cells are at Manhattan distance 1.
C15_ConsecutiveAdjacent ==
    \A i \in 1..(Len(snake) - 1) :
        LET dx == snake[i].x - snake[i + 1].x
            dy == snake[i].y - snake[i + 1].y
        IN  (IF dx < 0 THEN -dx ELSE dx) + (IF dy < 0 THEN -dy ELSE dy) = 1

\* C15 witness: a grown snake with two bends.
W_C15_BentSnake ==
    /\ Len(snake) >= 4
    /\ snake[1].y # snake[2].y
    /\ snake[2].x # snake[3].x
    /\ snake[3].y # snake[4].y

\* C16: in every committed state score = Len(snake) - 3.
C16_ScoreIsGrowth == score = Len(snake) - 3

\* C16 witness: a game that ended with food eaten.
W_C16_EndedWithScore ==
    /\ gameOver
    /\ changedDeps = {}
    /\ score >= 1
    /\ Len(snake) = score + 3

\* The tick that is due eats, and generateFood finds no free cell among the
\* cells it draws: the tick does not complete.
FoodPlacementStuck ==
    /\ RunningTickDue
    /\ NextHead = food
    /\ GenerateFood(<<NextHead>> \o snake) = {}

C18_TimerIffRunning ==
    /\ timers <= 1
    /\ (timers = 1) <=> ~gameOver

\* C18: in every state at most one interval is set; once the effects of a
\* commit have run, one is set exactly when the game is Running (the effect
\* cleanup after the crash commit clears it, the effect run after a restart
\* sets a new one); so in a state whose effects have run the interval
\* callback is delivered only to a Running game, by the one interval set.
C18_TimerIffRunningAfterEffects ==
    /\ [](timers <= 1)
    /\ [](changedDeps = {} => ((timers = 1) <=> ~gameOver))
    /\ [][(changedDeps = {} /\ moveTick' = moveTick + 1)
             => (~gameOver /\ timers = 1)]_vars

\* C18 witness: the commit that records a crash, its interval not yet
\* cleared by the effect cleanup.
W_C18_CrashCommitIntervalSet ==
    /\ gameOver
    /\ changedDeps = {"gameOver"}
    /\ timers = 1

\* The commit that starts a game, its effects not yet run: the mount, or the
\* commit of handleRestart (gameOver changed to false).
StartCommit ==
    /\ ~gameOver
    /\ changedDeps \cap {"mount", "gameOver"} # {}

\* C19: the commit that starts a game (mount or restart) has moveTick = 0 and
\* the initial snake, and the only step that follows it is the effect run
\* that moves the head from (8,8) to (9,8), once, with no interval callback
\* (moveTick stays 0) and no key handled (direction unchanged) before it; so
\* whenever a Running game with moveTick = 0 takes events, its head is (9,8).
C19_FirstTickAtStart ==
    /\ [][ StartCommit =>
             /\ moveTick = 0
             /\ snake = INITIAL_SNAKE
             /\ snake'[1] = [x |-> 9, y |-> 8]
             /\ changedDeps' = {}
             /\ moveTick' = moveTick
             /\ direction' = direction ]_vars
    /\ []((~gameOver /\ changedDeps = {} /\ moveTick = 0)
             => snake[1] = [x |-> 9, y |-> 8])

\* C19 witness: the first state of a game in which keys and the interval
\* callback are taken: the interval is set, no callback has arrived yet, and
\* the head is already at (9,8).
W_C19_FirstActionableState ==
    /\ ~gameOver
    /\ changedDeps = {}
    /\ moveTick = 0
    /\ timers = 1
    /\ snake[1] = [x |-> 9, y |-> 8]
    /\ snake[2] = [x |-> 8, y |-> 8]

====
